---- MODULE Spec2Model ----
(***************************************************************************)
(* Client-side conversation state machine of acumen-chat                    *)
(* (src/src/app/page.tsx, component Home) together with the two input       *)
(* surfaces (HeroSection, ChatInput), the persistence adapter               *)
(* (src/src/lib/storage.ts) and the request validation / provider switch    *)
(* of the dispatcher (src/src/app/api/chat/route.ts).                       *)
(*                                                                          *)
(* One action is one JavaScript task: an event handler, or the part of an   *)
(* async handler between two awaits, followed by React's render and the     *)
(* effects that the state change triggers.  An async handler keeps the      *)
(* values its closure captured at the render in which it was started        *)
(* (chats, messages, selectedChatId, selectedModelWithApiKey); functional   *)
(* updaters setChats(prev => ...) read the latest state.                    *)
(*                                                                          *)
(* Encoding of JavaScript values:                                           *)
(*   - a string is a sequence of one-character strings;                     *)
(*   - selectedChatId '' is NoChat; uuidv4() is the counter nextId;         *)
(*   - message.versions undefined is <<>> (the code never builds an empty   *)
(*     versions array), message.currentVersionIndex undefined is Undefined, *)
(*     message.isLoading undefined is FALSE;                                *)
(*   - currentVersionIndex is 0-based as in the source: versions[i] of the  *)
(*     source is versions[i + 1] here.                                      *)
(***************************************************************************)
EXTENDS Integers, Sequences, FiniteSets, TLC

\* ------------------------------------------------------------------ bounds
MaxRequests == 2      \* fetch('/api/chat') calls (sends and regenerations) per run
MaxDeltas == 2        \* chunks read from one response body
MaxToasts == 4        \* notifications recorded per run
MaxNavigations == 1   \* sidebar and model-dropdown operations per run
MaxTimers == 2        \* setTimeout callbacks of handleSelectChat pending at once

NoChat == 0
Undefined == 0 - 1

\* ------------------------------------------------------------------ strings
Whitespace == {" "}

RECURSIVE TrimStart(_)
TrimStart(s) ==
    IF s = <<>> THEN <<>>
    ELSE IF Head(s) \in Whitespace THEN TrimStart(Tail(s)) ELSE s

RECURSIVE TrimEnd(_)
TrimEnd(s) ==
    IF s = <<>> THEN <<>>
    ELSE IF s[Len(s)] \in Whitespace THEN TrimEnd(SubSeq(s, 1, Len(s) - 1)) ELSE s

\* String.prototype.trim
Trim(s) == TrimEnd(TrimStart(s))

SentenceEnd == {".", "!", "?"}

\* message.split(/[.!?]/)[0]
RECURSIVE FirstSentence(_)
FirstSentence(s) ==
    IF s = <<>> THEN <<>>
    ELSE IF Head(s) \in SentenceEnd THEN <<>>
    ELSE <<Head(s)>> \o FirstSentence(Tail(s))

generateChatTitle(message) ==
    LET firstSentence == FirstSentence(message)
    IN  IF firstSentence # message THEN firstSentence ELSE message

\* Texts typed into an input surface.
Inputs ==
    { <<>>, <<" ">>, <<" ", "h">> }

\* The same with a text that begins with the end of a sentence.
PunctuatedInputs == Inputs \cup { <<"?">> }

\* Chunks a response body can deliver.
Deltas == { <<"a">>, <<"b">> }

\* ------------------------------------------------------------------ providers
\* providers[] of lib/providers.ts, each with the ids getModels returns
\* (the first two of google, the first of the others).
ProviderCatalog ==
    [ p \in {"google", "anthropic", "mistral", "openai-compatible"} |->
        CASE p = "google" -> <<"gemini-2.5-pro-exp-03-25", "gemini-2.0-flash">>
          [] p = "anthropic" -> <<"claude-3-opus-20240229">>
          [] p = "mistral" -> <<"mistral-large-latest">>
          [] OTHER -> <<>> ]

ProviderIds == DOMAIN ProviderCatalog

getModels(provider) == ProviderCatalog[provider]

\* The cases of switch (model.provider) in POST.
SupportedProviders == {"google", "anthropic", "openai", "mistral", "xai", "perplexity", "lmstudio"}

DEFAULT_MODEL_ID == "gemini-2.0-flash"

\* Object lookup apiKeys[provider]; undefined is "".
RECURSIVE KeyOf(_, _)
KeyOf(keys, provider) ==
    IF keys = <<>> THEN ""
    ELSE IF keys[Len(keys)].provider = provider THEN keys[Len(keys)].key
    ELSE KeyOf(SubSeq(keys, 1, Len(keys) - 1), provider)

\* The index of the first element of s equal to v (0 when there is none), as
\* Array.prototype.find walks the array.
FirstIndex(s, v) ==
    IF \E i \in 1..Len(s) : s[i] = v
    THEN CHOOSE i \in 1..Len(s) : s[i] = v /\ \A j \in 1..(i - 1) : s[j] # v
    ELSE 0

\* The ids of the elements of a sequence of chats, messages or models.
Ids(s) == [i \in 1..Len(s) |-> s[i].id]

RECURSIVE FlatModels(_, _)
\* providerModels of Home: the models of every provider with a truthy key,
\* in Object.keys(apiKeys) order.
FlatModels(keys, all) ==
    IF keys = <<>> THEN <<>>
    ELSE LET p == Head(keys).provider
             ms == IF KeyOf(all, p) # "" /\ p \in ProviderIds
                   THEN [i \in 1..Len(getModels(p)) |-> [id |-> getModels(p)[i], provider |-> p]]
                   ELSE <<>>
         IN  ms \o FlatModels(Tail(keys), all)

NoModel == [id |-> "", provider |-> "", apiKey |-> ""]

\* ------------------------------------------------------------------ model resolution
\* selectedChat?.modelId || settings.defaultModelId
CurrentModelId(c, sel, st) ==
    LET i == FirstIndex(Ids(c), sel)
    IN  IF i # 0 /\ c[i].modelId # "" THEN c[i].modelId ELSE st.defaultModelId

\* settings.models.find(...), else providerModels.find(...), lines 443-494.
FindModel(currentModelId, models, providerModels) ==
    LET i == FirstIndex(Ids(models), currentModelId)
        j == FirstIndex(Ids(providerModels), currentModelId)
    IN  IF i # 0 THEN [id |-> models[i].id, provider |-> models[i].provider]
        ELSE IF j # 0 THEN providerModels[j]
        ELSE [id |-> "", provider |-> ""]

\* selectedModel of Home: settings.models first, then the provider models.
SelectedModel(c, sel, st, keys) ==
    FindModel(CurrentModelId(c, sel, st), st.models, FlatModels(keys, keys))

\* selectedModelWithApiKey before the fallback, lines 503-506.
WithApiKey(selectedModel, keys) ==
    IF selectedModel.id # ""
    THEN [id |-> selectedModel.id, provider |-> selectedModel.provider,
          apiKey |-> KeyOf(keys, selectedModel.provider)]
    ELSE NoModel

\* The fallback of lines 519-561 for the k-th entry of apiKeys, the first
\* with a truthy key (0 when there is none).
Fallback(initial, keys, k) ==
    IF /\ initial.apiKey = ""
       /\ Len(keys) > 0
       /\ k # 0
       /\ keys[k].provider \in ProviderIds
       /\ Len(getModels(keys[k].provider)) > 0
    THEN [model |-> [id |-> getModels(keys[k].provider)[1], provider |-> keys[k].provider,
                     apiKey |-> keys[k].key],
          fallback |-> TRUE]
    ELSE [model |-> initial, fallback |-> FALSE]

\* One evaluation of the render body of Home, lines 436-561: the model the
\* handlers of this render see, and whether the render called setSettings.
ResolveModel(c, sel, st, keys) ==
    Fallback(WithApiKey(SelectedModel(c, sel, st, keys), keys), keys,
             FirstIndex([i \in 1..Len(keys) |-> keys[i].key # ""], TRUE))

\* The render that follows the setSettings of a render r1 whose fallback
\* fired: r2 is that render, st2 the settings it sees.
Rerender(st2, r2) ==
    [settings |-> st2, model |-> r2.model, saved |-> TRUE, looping |-> r2.fallback]

\* A render r1 and, if it called setSettings, the render after it.
Rendered(c, sel, st, keys, r1) ==
    IF ~r1.fallback
    THEN [settings |-> st, model |-> r1.model, saved |-> FALSE, looping |-> FALSE]
    ELSE Rerender([st EXCEPT !.defaultModelId = r1.model.id],
                  ResolveModel(c, sel, [st EXCEPT !.defaultModelId = r1.model.id], keys))

\* The renders that follow a state change, up to the one that no longer calls
\* setSettings.  A render whose fallback fires again after its own update of
\* defaultModelId calls setSettings in every render: React stops with
\* "Too many re-renders" (looping).
RenderSettings(c, sel, st, keys) ==
    Rendered(c, sel, st, keys, ResolveModel(c, sel, st, keys))

\* ------------------------------------------------------------------ state
VARIABLES
    chats,                \* useState<Chat[]> of Home
    messages,             \* useState<Message[]> of Home: the displayed list
    selectedChatId,       \* useState<string> of Home
    lastSelectedChatRef,  \* useRef<string> of Home
    settings,             \* useState<Settings> of Home
    apiKeys,              \* useState<Record<string, string>> of Home, in Object.keys order
    inputApiKeys,         \* useState apiKeys of ChatInput, read when ChatInput mounted
    activeProviders,      \* localStorage 'activeProviders': the providers set to true
    storedChats,          \* localStorage 'acumen-chats'
    storedSettings,       \* localStorage 'acumen-settings'
    procs,                \* async handlers suspended at an await
    timers,               \* pending setTimeout callbacks
    toasts,               \* toast.error calls so far
    requests,             \* fetch('/api/chat') calls so far
    providerCalls,        \* requests the dispatcher passed on to a provider
    nextId,               \* the next value of uuidv4()
    route,                \* "home", "settings" after router.push, "error" after a render loop
    navigations,          \* sidebar and model-dropdown operations so far
    post,                 \* one invocation of POST of api/chat/route.ts
    storage               \* lib/storage.ts: its caches, the items behind them, the page using it

vars == << chats, messages, selectedChatId, lastSelectedChatRef, settings, apiKeys,
           inputApiKeys, activeProviders, storedChats, storedSettings, procs, timers,
           toasts, requests, providerCalls, nextId, route,
           navigations, post, storage >>

\* ------------------------------------------------------------------ messages and chats
Message(id, role, content, isLoading, versions, currentVersionIndex) ==
    [id |-> id, role |-> role, content |-> content, isLoading |-> isLoading,
     versions |-> versions, currentVersionIndex |-> currentVersionIndex]

Version(id, content) == [id |-> id, content |-> content]

\* hasVersions of types/chat
hasVersions(message) == Len(message.versions) > 0

FindChat(c, chatId) == FirstIndex(Ids(c), chatId)

\* The update applied to the selected conversation instead of the one named.
WithMessagesOfSelected(c, chatId, msgs) ==
    [n \in 1..Len(c) |-> IF c[n].id = selectedChatId THEN [c[n] EXCEPT !.messages = msgs] ELSE c[n]]

\* prevChats.map(chat => chat.id === chatId ? {...chat, messages} : chat)
WithMessages(c, chatId, msgs) ==
    [n \in 1..Len(c) |-> IF c[n].id = chatId THEN [c[n] EXCEPT !.messages = msgs] ELSE c[n]]

\* messages.map(m => m.id === id ? message : m)
ReplaceById(msgs, id, message) ==
    [j \in 1..Len(msgs) |-> IF msgs[j].id = id THEN message ELSE msgs[j]]

\* chats.map(chat => ({...chat, messages: chat.messages.map(m => m.id === id ? message : m)}))
WithMessageReplaced(c, id, message) ==
    [n \in 1..Len(c) |-> [c[n] EXCEPT !.messages = ReplaceById(c[n].messages, id, message)]]

\* ------------------------------------------------------------------ effects
\* The effect of Home on [chats, selectedChatId], lines 863-917, with the
\* messages of the render it runs in.
SyncEffect(c, sel, msgs) ==
    LET i == FindChat(c, sel)
    IN  IF sel = NoChat THEN [selectedChatId |-> sel, messages |-> <<>>]
        ELSE IF i # 0
        THEN [selectedChatId |-> sel,
              messages |-> IF Ids(msgs) # Ids(c[i].messages) THEN c[i].messages ELSE msgs]
        ELSE IF Len(c) > 0
        THEN [selectedChatId |-> c[1].id, messages |-> c[1].messages]
        ELSE [selectedChatId |-> NoChat, messages |-> <<>>]

\* The state after the effects e and the renders r that follow them.
Settled(c, e, lastRef, ss, changed, r) ==
    [chats |-> c, selectedChatId |-> e.selectedChatId, messages |-> e.messages,
     lastSelectedChatRef |-> IF changed THEN e.selectedChatId ELSE lastRef,
     settings |-> r.settings,
     storedSettings |-> IF r.saved THEN r.settings ELSE ss,
     looping |-> r.looping]

\* The effects e of a task and the renders after them.
AfterEffects(c, e, lastRef, st, ss, changed) ==
    Settled(c, e, lastRef, ss, changed, RenderSettings(c, e.selectedChatId, st, apiKeys))

\* What a task leaves behind once React has rendered and run the effects:
\* `changed` says whether the task replaced chats or selectedChatId (the
\* dependencies of the effects at lines 722-755 and 863-917); lastRef is
\* lastSelectedChatRef as the task left it.
AfterRender(c, sel, msgs, lastRef, st, ss, changed) ==
    AfterEffects(c, IF changed THEN SyncEffect(c, sel, msgs)
                    ELSE [selectedChatId |-> sel, messages |-> msgs],
                 lastRef, st, ss, changed)

\* setState of everything a task and its renders decided.
CommitState(a) ==
    /\ chats' = a.chats
    /\ selectedChatId' = a.selectedChatId
    /\ messages' = a.messages
    /\ lastSelectedChatRef' = a.lastSelectedChatRef
    /\ settings' = a.settings
    /\ storedSettings' = a.storedSettings
    /\ route' = IF a.looping THEN "error" ELSE route

\* Commit the outcome of a task: c, sel, msgs, lastRef, st are the values the
\* task set, ss is localStorage 'acumen-settings' as the task left it.
Commit(c, sel, msgs, lastRef, st, ss, changed) ==
    CommitState(AfterRender(c, sel, msgs, lastRef, st, ss, changed))

\* selectedModelWithApiKey as the handlers of the current render see it.
selectedModelWithApiKey ==
    RenderSettings(chats, selectedChatId, settings, apiKeys).model

\* ------------------------------------------------------------------ construction
Key(provider, key) == [provider |-> provider, key |-> key]

DefaultSettings == [defaultModelId |-> DEFAULT_MODEL_ID, models |-> <<>>]

CustomModel == [id |-> "custom-model", provider |-> "openai-compatible"]

\* Contents of localStorage when the page is opened: 'apiKeys' (present or
\* not), 'activeProviders' and 'acumen-settings' as the settings page wrote
\* them.  'acumen-chats' is empty.
\* First run: nothing stored.
FirstRun ==
    [hasApiKeys |-> FALSE, apiKeys |-> <<>>, activeProviders |-> {},
     settings |-> DefaultSettings]

\* A key for the provider of the default model.
GoogleKey ==
    [hasApiKeys |-> TRUE, apiKeys |-> <<Key("google", "k")>>,
     activeProviders |-> {"google"}, settings |-> DefaultSettings]

\* A key for another provider only.
OtherProviderKey ==
    [hasApiKeys |-> TRUE, apiKeys |-> <<Key("anthropic", "k")>>,
     activeProviders |-> {"google", "anthropic"}, settings |-> DefaultSettings]

\* An empty key.
EmptyKey ==
    [hasApiKeys |-> TRUE, apiKeys |-> <<Key("google", "")>>,
     activeProviders |-> {"google"}, settings |-> DefaultSettings]

\* A user-declared model of the OpenAI-compatible provider as the default.
CustomProviderModel ==
    [hasApiKeys |-> TRUE, apiKeys |-> <<Key("openai-compatible", "k")>>,
     activeProviders |-> {"openai-compatible"},
     settings |-> [defaultModelId |-> CustomModel.id, models |-> <<CustomModel>>]]

Profiles == { FirstRun, GoogleKey, OtherProviderKey, EmptyKey, CustomProviderModel }

testApiKeys == <<Key("google", "test-google-api-key"), Key("mistral", "test-mistral-api-key")>>

\* The apiKeys state after the mount effect of Home, lines 321-365.
MountApiKeys(profile) ==
    IF profile.hasApiKeys
    THEN SelectSeq(profile.apiKeys, LAMBDA e : e.key # "")
    ELSE testApiKeys

\* The state after the mount effects and the first render, for one profile.
InitState(profile, keys, r) ==
    /\ chats = <<>>
    /\ messages = <<>>
    /\ selectedChatId = NoChat
    /\ lastSelectedChatRef = NoChat
    /\ apiKeys = keys
    /\ inputApiKeys = profile.apiKeys
    /\ activeProviders = profile.activeProviders
    /\ settings = r.settings
    /\ storedSettings = r.settings
    /\ storedChats = <<>>
    /\ procs = {}
    /\ timers = {}
    \* the effect at lines 410-434 reports an empty credential store
    /\ toasts = IF keys = <<>> THEN 1 ELSE 0
    /\ requests = 0
    /\ providerCalls = 0
    /\ nextId = 1
    /\ route = "home"
    /\ navigations = 0

InitFrom(profile) ==
    InitState(profile, MountApiKeys(profile),
              RenderSettings(<<>>, NoChat, profile.settings, MountApiKeys(profile)))

\* ------------------------------------------------------------------ navigation
Timer(kind, chatId, msgs, chat) ==
    [kind |-> kind, chatId |-> chatId, messages |-> msgs, chat |-> chat]

NoChatRecord == [id |-> NoChat, title |-> <<>>, messages |-> <<>>, modelId |-> ""]

handleSelectChat(chatId) ==
    /\ route = "home"
    /\ navigations < MaxNavigations
    /\ navigations' = navigations + 1
    /\ FindChat(chats, chatId) # 0
    /\ Cardinality({t \in timers : t.kind = "select"}) < MaxTimers
    /\ timers' = timers \cup
            {Timer("select", chatId, chats[FindChat(chats, chatId)].messages, NoChatRecord)}
    /\ Commit(chats, chatId, <<>>, chatId, settings, storedSettings, chatId # selectedChatId)
    /\ UNCHANGED << post, storage, apiKeys, inputApiKeys, activeProviders, storedChats, procs, toasts,
                    requests, providerCalls, nextId >>

\* The callback of setTimeout(..., 50) in handleSelectChat.
SelectChatTimeout(t) ==
    /\ route = "home"
    /\ t \in timers
    /\ t.kind = "select"
    /\ timers' = timers \ {t}
    /\ Commit(chats, selectedChatId,
              IF lastSelectedChatRef = t.chatId THEN t.messages ELSE messages,
              lastSelectedChatRef, settings, storedSettings, FALSE)
    /\ UNCHANGED << post, storage, navigations, apiKeys, inputApiKeys, activeProviders, storedChats, procs, toasts,
                    requests, providerCalls, nextId >>

handleNewChat ==
    /\ route = "home"
    /\ navigations < MaxNavigations
    /\ navigations' = navigations + 1
    /\ Commit(chats, NoChat, <<>>, lastSelectedChatRef, settings, storedSettings,
              selectedChatId # NoChat)
    /\ UNCHANGED << post, storage, apiKeys, inputApiKeys, activeProviders, storedChats, procs, timers,
                    toasts, requests, providerCalls, nextId >>

\* handleDeleteChat clearing the selection whenever it deletes the selected
\* conversation.
handleDeleteChatClearingSelection(chatId) ==
    /\ route = "home"
    /\ navigations < MaxNavigations
    /\ navigations' = navigations + 1
    /\ FindChat(chats, chatId) # 0
    /\ LET updatedChats == SelectSeq(chats, LAMBDA chat : chat.id # chatId)
           sel == IF selectedChatId = chatId THEN NoChat ELSE selectedChatId
       IN  /\ storedChats' = updatedChats
           /\ Commit(updatedChats, sel, messages, lastSelectedChatRef, settings,
                     storedSettings, TRUE)
    /\ UNCHANGED << post, storage, apiKeys, inputApiKeys, activeProviders, procs, timers, toasts,
                    requests, providerCalls, nextId >>

handleDeleteChat(chatId) ==
    /\ route = "home"
    /\ navigations < MaxNavigations
    /\ navigations' = navigations + 1
    /\ FindChat(chats, chatId) # 0
    /\ LET updatedChats == SelectSeq(chats, LAMBDA chat : chat.id # chatId)
           sel == IF selectedChatId = chatId
                  THEN (IF Len(updatedChats) > 0 THEN updatedChats[1].id ELSE NoChat)
                  ELSE selectedChatId
       IN  /\ storedChats' = updatedChats
           /\ Commit(updatedChats, sel, messages, lastSelectedChatRef, settings,
                     storedSettings, TRUE)
    /\ UNCHANGED << post, storage, apiKeys, inputApiKeys, activeProviders, procs, timers, toasts,
                    requests, providerCalls, nextId >>

\* The texts the title input of the sidebar can hold when its check button is
\* clicked: handleEditChat put the title there and the user edited it.
Titles == { <<>>, <<"t">> }

UntitledChat == <<"U", "n", "t", "i", "t", "l", "e", "d", " ", "C", "h", "a", "t">>

\* handleSaveTitle with editingTitle as the title input holds it, lines 851-860.
handleSaveTitle(chatId, editingTitle) ==
    /\ route = "home"
    /\ navigations < MaxNavigations
    /\ navigations' = navigations + 1
    /\ FindChat(chats, chatId) # 0
    /\ LET updatedChats ==
               [n \in 1..Len(chats) |->
                   IF chats[n].id = chatId
                   THEN [chats[n] EXCEPT
                            !.title = IF editingTitle # <<>> THEN editingTitle ELSE UntitledChat]
                   ELSE chats[n]]
       IN  /\ storedChats' = updatedChats
           /\ Commit(updatedChats, selectedChatId, messages, lastSelectedChatRef, settings,
                     storedSettings, TRUE)
    /\ UNCHANGED << post, storage, apiKeys, inputApiKeys, activeProviders, procs, timers, toasts,
                    requests, providerCalls, nextId >>

\* The models the dropdowns of HeroSection and ChatInput offer: the hardcoded
\* models of the active providers and the custom models of active providers.
SelectableModels ==
    UNION { { getModels(p)[i] : i \in 1..Len(getModels(p)) } :
            p \in activeProviders \cap ProviderIds }
    \cup { settings.models[i].id : i \in { j \in 1..Len(settings.models) :
                                            settings.models[j].provider \in activeProviders } }

\* onSelectModel as Home passes it to HeroSection and ChatInput.
onSelectModel(modelId) ==
    /\ route = "home"
    /\ navigations < MaxNavigations
    /\ navigations' = navigations + 1
    /\ modelId \in SelectableModels
    /\ IF selectedChatId # NoChat
       THEN LET updatedChats ==
                    [n \in 1..Len(chats) |->
                        IF chats[n].id = selectedChatId
                        THEN [chats[n] EXCEPT !.modelId = modelId]
                        ELSE chats[n]]
            IN  /\ storedChats' = updatedChats
                /\ Commit(updatedChats, selectedChatId, messages, lastSelectedChatRef,
                          settings, storedSettings, TRUE)
       ELSE LET newSettings == [settings EXCEPT !.defaultModelId = modelId]
            IN  /\ storedChats' = storedChats
                /\ Commit(chats, selectedChatId, messages, lastSelectedChatRef,
                          newSettings, newSettings, FALSE)
    /\ UNCHANGED << post, storage, apiKeys, inputApiKeys, activeProviders, procs, timers, toasts,
                    requests, providerCalls, nextId >>

\* ------------------------------------------------------------------ send
\* An async handler suspended at an await, with what its closure holds:
\* of handleSendMessage newChatId (chatId), aiMessageId, currentMessages and
\* aiMessageContent (content); of handleRewrite message, updatedMessage,
\* messages, chats and accumulatedContent (content).  request is the
\* messages array of the request body, model is selectedModelWithApiKey,
\* chunks are the values reader.read() has delivered so far.
Proc(kind, chatId, aiMessageId, currentMessages, model, request, message, updatedMessage, msgs, c) ==
    [kind |-> kind, pc |-> "fetch", chatId |-> chatId, aiMessageId |-> aiMessageId,
     currentMessages |-> currentMessages, content |-> <<>>, chunks |-> <<>>, model |-> model,
     request |-> request, message |-> message, updatedMessage |-> updatedMessage,
     messages |-> msgs, chats |-> c]

NoMessage == Message(0, "", <<>>, FALSE, <<>>, Undefined)

\* A loading message created with a version for the content to come.
loadingMessageWithVersion(aiMessageId) ==
    Message(aiMessageId, "assistant", <<>>, TRUE, << Version(aiMessageId, <<>>) >>, 0)

loadingMessage(aiMessageId) == Message(aiMessageId, "assistant", <<>>, TRUE, <<>>, Undefined)

\* updateChatWithLoading of handleSendMessage, lines 1035-1061, as an updater.
updateChatWithLoading(prevChats, newChat, messagesWithLoadingIndicator) ==
    IF FindChat(prevChats, newChat.id) = 0
    THEN << [newChat EXCEPT !.messages = messagesWithLoadingIndicator] >>
         \o SelectSeq(prevChats, LAMBDA chat : chat.id # newChat.id)
    ELSE WithMessages(prevChats, newChat.id, messagesWithLoadingIndicator)

\* The part of handleSendMessage after the two guards and before await fetch,
\* lines 942-1091, when no chat is selected.
SendInNewChat(message, model) ==
    LET userMessage == Message(nextId, "user", message, FALSE, <<>>, Undefined)
        chatId == nextId + 1
        aiMessageId == nextId + 2
        newChat == [id |-> chatId, title |-> generateChatTitle(message),
                    messages |-> <<userMessage>>, modelId |-> model.id]
        currentMessages == <<userMessage>>
        messagesWithLoadingIndicator == Append(currentMessages, loadingMessage(aiMessageId))
        updatedChats ==
            updateChatWithLoading(<<newChat>> \o chats, newChat, messagesWithLoadingIndicator)
    IN  /\ storedChats' = updatedChats
        /\ timers' = timers \cup
                {Timer("updateChatWithLoading", chatId, messagesWithLoadingIndicator, newChat)}
        /\ procs' = procs \cup
                {Proc("send", chatId, aiMessageId, currentMessages, model,
                      currentMessages, NoMessage, NoMessage, <<>>, <<>>)}
        /\ nextId' = nextId + 3
        /\ requests' = requests + 1
        /\ toasts' = toasts
        /\ Commit(updatedChats, chatId, messagesWithLoadingIndicator, lastSelectedChatRef,
                  settings, storedSettings, TRUE)

\* The same part when a chat is selected.
SendInExistingChat(message, model) ==
    LET userMessage == Message(nextId, "user", message, FALSE, <<>>, Undefined)
        newChatId == selectedChatId
        i == FindChat(chats, newChatId)
        aiMessageId == nextId + 1
        currentMessages == Append(chats[i].messages, userMessage)
        messagesWithLoadingIndicator == Append(currentMessages, loadingMessage(aiMessageId))
        updatedChats == WithMessages(chats, newChatId, currentMessages)
    IN  IF i = 0
        THEN \* throw new Error(`Chat with ID ... not found`), caught at line 1174
             /\ toasts < MaxToasts
             /\ toasts' = toasts + 1
             /\ nextId' = nextId + 1
             /\ UNCHANGED << chats, messages, selectedChatId, lastSelectedChatRef, settings,
                             storedSettings, storedChats, timers, procs, requests, route >>
        ELSE /\ storedChats' = updatedChats
             /\ procs' = procs \cup
                    {Proc("send", newChatId, aiMessageId, currentMessages, model,
                          currentMessages, NoMessage, NoMessage, <<>>, <<>>)}
             /\ nextId' = nextId + 2
             /\ requests' = requests + 1
             /\ UNCHANGED << timers, toasts >>
             /\ Commit(updatedChats, newChatId, messagesWithLoadingIndicator,
                       lastSelectedChatRef, settings, storedSettings, TRUE)

\* handleSendMessage up to its first await.
handleSendMessage(message) ==
    LET model == selectedModelWithApiKey
    IN  IF Trim(message) = <<>>
        THEN UNCHANGED << chats, messages, selectedChatId, lastSelectedChatRef, settings,
                          storedSettings, storedChats, timers, procs, requests, route,
                          toasts, nextId >>
        ELSE IF model.apiKey = ""
        THEN \* toast.error('Please add an API key ...'); router.push('/settings')
             /\ toasts < MaxToasts
             /\ toasts' = toasts + 1
             /\ route' = "settings"
             /\ UNCHANGED << chats, messages, selectedChatId, lastSelectedChatRef, settings,
                             storedSettings, storedChats, timers, procs, requests, nextId >>
        ELSE /\ requests < MaxRequests
             /\ IF selectedChatId = NoChat
                THEN SendInNewChat(message, model)
                ELSE SendInExistingChat(message, model)

\* HeroSection is rendered when selectedChatId === '' || messages.length === 0.
HeroVisible == selectedChatId = NoChat \/ messages = <<>>

\* handleSubmit of HeroSection.
HeroSubmit(input) ==
    /\ route = "home"
    /\ HeroVisible
    /\ IF Trim(input) # <<>>
       THEN handleSendMessage(input)
       ELSE UNCHANGED << chats, messages, selectedChatId, lastSelectedChatRef, settings,
                         storedSettings, storedChats, timers, procs, requests, route,
                         toasts, nextId >>
    /\ UNCHANGED << post, storage, navigations, apiKeys, inputApiKeys, activeProviders, providerCalls >>

\* isLoading of useChat, line 709.  Home never calls handleSubmit, append or
\* reload of useChat, so the hook never has a request of its own in flight.
isLoading == FALSE

\* allModels of ChatInput, lines 58-72, as [id, provider] pairs.
InputModels ==
    UNION { { [id |-> getModels(p)[i], provider |-> p] : i \in 1..Len(getModels(p)) } :
            p \in activeProviders \cap ProviderIds }
    \cup { settings.models[i] : i \in { j \in 1..Len(settings.models) :
                                         settings.models[j].provider \in activeProviders } }

\* handleSubmit of ChatInput, lines 99-131; the textarea is disabled while
\* isLoading.
ChatInputSubmit(input) ==
    LET selectedModelId == CurrentModelId(chats, selectedChatId, settings)
        found == { m \in InputModels : m.id = selectedModelId }
        selectedModelApiKey ==
            IF found = {} THEN "" ELSE KeyOf(inputApiKeys, (CHOOSE m \in found : TRUE).provider)
    IN  /\ route = "home"
        /\ ~isLoading
        /\ IF selectedModelId = ""
           THEN /\ toasts < MaxToasts
                /\ toasts' = toasts + 1
                /\ UNCHANGED << chats, messages, selectedChatId, lastSelectedChatRef,
                                settings, storedSettings, storedChats, timers, procs,
                                requests, route, nextId >>
           ELSE IF selectedModelApiKey = ""
           THEN /\ toasts < MaxToasts
                /\ toasts' = toasts + 1
                /\ route' = "settings"
                /\ UNCHANGED << chats, messages, selectedChatId, lastSelectedChatRef,
                                settings, storedSettings, storedChats, timers, procs,
                                requests, nextId >>
           ELSE IF Trim(input) # <<>>
           THEN handleSendMessage(Trim(input))
           ELSE UNCHANGED << chats, messages, selectedChatId, lastSelectedChatRef, settings,
                             storedSettings, storedChats, timers, procs, requests, route,
                             toasts, nextId >>
        /\ UNCHANGED << post, storage, navigations, apiKeys, inputApiKeys, activeProviders, providerCalls >>

\* The callback of setTimeout(updateChatWithLoading, 100), line 1067.
UpdateChatWithLoadingTimeout(t) ==
    /\ route = "home"
    /\ t \in timers
    /\ t.kind = "updateChatWithLoading"
    /\ timers' = timers \ {t}
    /\ LET updatedChats == updateChatWithLoading(chats, t.chat, t.messages)
       IN  /\ storedChats' = updatedChats
           /\ Commit(updatedChats, selectedChatId, messages, lastSelectedChatRef, settings,
                     storedSettings, TRUE)
    /\ UNCHANGED << post, storage, navigations, apiKeys, inputApiKeys, activeProviders, procs, toasts, requests,
                    providerCalls, nextId >>

\* ------------------------------------------------------------------ dispatcher
\* POST of api/chat/route.ts up to the provider call: the request validation
\* of lines 45-64 and the switch on model.provider.  The result is "rejected"
\* (a 400 answer, no provider called) or "provider" (the provider is called).
Dispatch(requestMessages, model) ==
    IF Len(requestMessages) = 0 THEN "rejected"
    ELSE IF model.apiKey = "" THEN "rejected"
    ELSE IF model.id = "" \/ model.provider = "" THEN "rejected"
    ELSE IF model.provider \in SupportedProviders THEN "provider"
    ELSE "rejected"

\* The catch block of handleSendMessage, lines 1174-1177.
SendCatch(p) ==
    /\ procs' = procs \ {p}
    /\ toasts' = toasts + 1
    /\ UNCHANGED << chats, messages, selectedChatId, lastSelectedChatRef, settings,
                    storedSettings, storedChats, route, nextId >>

\* await fetch('/api/chat') of handleSendMessage resolves: ok is response.ok.
SendResponse(p, ok) ==
    /\ route = "home"
    /\ p \in procs
    /\ p.kind = "send"
    /\ p.pc = "fetch"
    /\ LET d == Dispatch(p.request, p.model)
       IN  /\ d = "rejected" => ~ok
           /\ providerCalls' = IF d = "provider" THEN providerCalls + 1 ELSE providerCalls
    /\ IF ok
       THEN /\ procs' = (procs \ {p}) \cup {[p EXCEPT !.pc = "read"]}
            /\ UNCHANGED << chats, messages, selectedChatId, lastSelectedChatRef, settings,
                            storedSettings, storedChats, route, nextId, toasts >>
       ELSE SendCatch(p)
    /\ UNCHANGED << post, storage, navigations, apiKeys, inputApiKeys, activeProviders, timers, requests >>

\* reader.read() of handleSendMessage delivers a chunk, lines 1106-1137.
SendDelta(p, text) ==
    /\ route = "home"
    /\ p \in procs
    /\ p.kind = "send"
    /\ p.pc = "read"
    /\ Len(p.chunks) < MaxDeltas
    /\ LET aiMessageContent == p.content \o text
           messagesWithLoadingIndicator ==
               Append(p.currentMessages, loadingMessage(p.aiMessageId))
           updatedMessages ==
               [j \in 1..Len(messagesWithLoadingIndicator) |->
                   IF messagesWithLoadingIndicator[j].id = p.aiMessageId
                   THEN [messagesWithLoadingIndicator[j] EXCEPT
                            !.content = aiMessageContent, !.isLoading = TRUE]
                   ELSE messagesWithLoadingIndicator[j]]
           updatedChats == WithMessages(chats, p.chatId, updatedMessages)
       IN  /\ procs' = (procs \ {p}) \cup
                    {[p EXCEPT !.content = aiMessageContent, !.chunks = Append(p.chunks, text)]}
           /\ storedChats' = updatedChats
           /\ Commit(updatedChats, selectedChatId, updatedMessages, lastSelectedChatRef,
                     settings, storedSettings, TRUE)
    /\ UNCHANGED << post, storage, navigations, apiKeys, inputApiKeys, activeProviders, timers, toasts, requests,
                    providerCalls, nextId >>

\* finalAiMessage without its versions entry.
finalAiMessageWithoutVersions(aiMessageId, aiMessageContent, versionId) ==
    Message(aiMessageId, "assistant", aiMessageContent, FALSE, <<>>, Undefined)

\* finalAiMessage of handleSendMessage, lines 1141-1153.
finalAiMessage(aiMessageId, aiMessageContent, versionId) ==
    Message(aiMessageId, "assistant", aiMessageContent, FALSE,
            << Version(versionId, aiMessageContent) >>, 0)

\* reader.read() of handleSendMessage reports done, lines 1140-1172.
SendDone(p) ==
    /\ route = "home"
    /\ p \in procs
    /\ p.kind = "send"
    /\ p.pc = "read"
    /\ LET finalMessages ==
               Append(p.currentMessages, finalAiMessage(p.aiMessageId, p.content, nextId))
           updatedChats == WithMessages(chats, p.chatId, finalMessages)
       IN  /\ procs' = procs \ {p}
           /\ nextId' = nextId + 1
           /\ storedChats' = updatedChats
           /\ Commit(updatedChats, selectedChatId, finalMessages, lastSelectedChatRef,
                     settings, storedSettings, TRUE)
    /\ UNCHANGED << post, storage, navigations, apiKeys, inputApiKeys, activeProviders, timers, toasts, requests,
                    providerCalls >>

\* reader.read() of handleSendMessage throws.
SendReadError(p) ==
    /\ route = "home"
    /\ p \in procs
    /\ p.kind = "send"
    /\ p.pc = "read"
    /\ SendCatch(p)
    /\ UNCHANGED << post, storage, navigations, apiKeys, inputApiKeys, activeProviders, timers, requests, providerCalls >>

\* ------------------------------------------------------------------ regenerate
\* The message list is rendered instead of HeroSection, and the buttons under
\* an assistant message when it is not loading (line 1568).
ButtonsVisible(k) ==
    /\ ~HeroVisible
    /\ k \in 1..Len(messages)
    /\ messages[k].role = "assistant"
    /\ ~messages[k].isLoading

\* The catch block of handleRewrite, lines 1440-1449.
RewriteCatch(message, msgs) ==
    /\ toasts' = toasts + 1
    /\ Commit(chats, selectedChatId,
              ReplaceById(msgs, message.id, [message EXCEPT !.isLoading = FALSE]),
              lastSelectedChatRef, settings, storedSettings, FALSE)

\* updatedMessage of handleRewrite, lines 1347-1355.
rewriteUpdatedMessage(message, versionId) ==
    [message EXCEPT
        !.versions = IF message.versions = <<>> THEN << Version(versionId, message.content) >>
                     ELSE message.versions,
        !.currentVersionIndex = Len(message.versions)]

\* handleRewrite(messages[k], messages[k - 1]) up to await fetch, lines 1340-1377.
handleRewrite(k) ==
    /\ route = "home"
    /\ ButtonsVisible(k)
    /\ LET message == messages[k]
           model == selectedModelWithApiKey
           fresh == message.versions = <<>>
           updatedMessage == rewriteUpdatedMessage(message, nextId)
           updatedMessages ==
               ReplaceById(messages, message.id, [updatedMessage EXCEPT !.isLoading = TRUE])
       IN  IF model.id = ""
           THEN \* toast.error('Please select a model first')
                /\ toasts < MaxToasts
                /\ toasts' = toasts + 1
                /\ UNCHANGED << chats, messages, selectedChatId, lastSelectedChatRef,
                                settings, storedSettings, route, procs, requests, nextId >>
           ELSE IF k = 1
           THEN \* userMessage is undefined: userMessage.content throws inside try
                /\ toasts < MaxToasts
                /\ nextId' = IF fresh THEN nextId + 1 ELSE nextId
                /\ RewriteCatch(message, messages)
                /\ UNCHANGED << procs, requests >>
           ELSE /\ requests < MaxRequests
                /\ requests' = requests + 1
                /\ nextId' = IF fresh THEN nextId + 1 ELSE nextId
                /\ procs' = procs \cup
                        {Proc("rewrite", selectedChatId, message.id, <<>>, model,
                              << messages[k - 1] >>, message, updatedMessage, messages, chats)}
                /\ toasts' = toasts
                /\ Commit(chats, selectedChatId, updatedMessages, lastSelectedChatRef,
                          settings, storedSettings, FALSE)
    /\ UNCHANGED << post, storage, navigations, apiKeys, inputApiKeys, activeProviders, storedChats, timers,
                    providerCalls >>

\* await fetch('/api/chat') of handleRewrite resolves.
RewriteResponse(p, ok) ==
    /\ route = "home"
    /\ p \in procs
    /\ p.kind = "rewrite"
    /\ p.pc = "fetch"
    /\ LET d == Dispatch(p.request, p.model)
       IN  /\ d = "rejected" => ~ok
           /\ providerCalls' = IF d = "provider" THEN providerCalls + 1 ELSE providerCalls
    /\ IF ok
       THEN /\ procs' = (procs \ {p}) \cup {[p EXCEPT !.pc = "read"]}
            /\ UNCHANGED << chats, messages, selectedChatId, lastSelectedChatRef, settings,
                            storedSettings, route, toasts >>
       ELSE /\ procs' = procs \ {p}
            /\ RewriteCatch(p.message, p.messages)
    /\ UNCHANGED << post, storage, navigations, apiKeys, inputApiKeys, activeProviders, storedChats, timers,
                    requests, nextId >>

\* reader.read() of handleRewrite delivers a chunk, lines 1391-1405.
RewriteDelta(p, text) ==
    /\ route = "home"
    /\ p \in procs
    /\ p.kind = "rewrite"
    /\ p.pc = "read"
    /\ Len(p.chunks) < MaxDeltas
    /\ LET accumulatedContent == p.content \o text
           streamingMessages ==
               ReplaceById(p.messages, p.message.id,
                   [p.updatedMessage EXCEPT !.content = accumulatedContent, !.isLoading = TRUE])
       IN  /\ procs' = (procs \ {p}) \cup
                    {[p EXCEPT !.content = accumulatedContent, !.chunks = Append(p.chunks, text)]}
           /\ Commit(chats, selectedChatId, streamingMessages, lastSelectedChatRef,
                     settings, storedSettings, FALSE)
    /\ UNCHANGED << post, storage, navigations, apiKeys, inputApiKeys, activeProviders, storedChats, timers,
                    toasts, requests, providerCalls, nextId >>

\* finalMessage replacing the versions by the new one instead of appending.
rewriteFinalMessageReplacing(updatedMessage, accumulatedContent, versionId) ==
    [updatedMessage EXCEPT
        !.content = accumulatedContent,
        !.versions = << Version(versionId, accumulatedContent) >>,
        !.currentVersionIndex = 0,
        !.isLoading = FALSE]

\* finalMessage of handleRewrite, lines 1416-1422.
rewriteFinalMessage(updatedMessage, accumulatedContent, versionId) ==
    [updatedMessage EXCEPT
        !.content = accumulatedContent,
        !.versions = Append(updatedMessage.versions, Version(versionId, accumulatedContent)),
        !.currentVersionIndex = Len(updatedMessage.versions),
        !.isLoading = FALSE]

\* reader.read() of handleRewrite reports done, lines 1408-1438.
RewriteDone(p) ==
    /\ route = "home"
    /\ p \in procs
    /\ p.kind = "rewrite"
    /\ p.pc = "read"
    /\ LET finalMessage == rewriteFinalMessage(p.updatedMessage, p.content, nextId)
           finalMessages == ReplaceById(p.messages, p.message.id, finalMessage)
           updatedChats == WithMessageReplaced(p.chats, p.message.id, finalMessage)
       IN  /\ procs' = procs \ {p}
           /\ nextId' = nextId + 1
           /\ storedChats' = updatedChats
           /\ Commit(updatedChats, selectedChatId, finalMessages, lastSelectedChatRef,
                     settings, storedSettings, TRUE)
    /\ UNCHANGED << post, storage, navigations, apiKeys, inputApiKeys, activeProviders, timers, toasts,
                    requests, providerCalls >>

\* reader.read() of handleRewrite throws.
RewriteReadError(p) ==
    /\ route = "home"
    /\ p \in procs
    /\ p.kind = "rewrite"
    /\ p.pc = "read"
    /\ procs' = procs \ {p}
    /\ RewriteCatch(p.message, p.messages)
    /\ UNCHANGED << post, storage, navigations, apiKeys, inputApiKeys, activeProviders, storedChats, timers,
                    requests, providerCalls, nextId >>

\* ------------------------------------------------------------------ versions
\* updatedMessage moving the index and leaving the content.
selectVersionIndexOnly(message, versionIndex) ==
    [message EXCEPT !.currentVersionIndex = versionIndex]

\* updatedMessage showing the content and leaving the index.
selectVersionContentOnly(message, versionIndex) ==
    [message EXCEPT !.content = message.versions[versionIndex + 1].content]

\* updatedMessage of handleVersionSelect, lines 1457-1461.
selectVersion(message, versionIndex) ==
    [message EXCEPT !.content = message.versions[versionIndex + 1].content,
                    !.currentVersionIndex = versionIndex]

\* The version dropdown is rendered for hasVersions(message) with more than
\* one version (line 1571); its entries are the indices of message.versions.
handleVersionSelect(k, versionIndex) ==
    /\ route = "home"
    /\ ButtonsVisible(k)
    /\ hasVersions(messages[k])
    /\ Len(messages[k].versions) > 1
    /\ versionIndex \in 0..(Len(messages[k].versions) - 1)
    /\ LET message == messages[k]
           updatedMessage == selectVersion(message, versionIndex)
           updatedMessages == ReplaceById(messages, message.id, updatedMessage)
           updatedChats == WithMessageReplaced(chats, message.id, updatedMessage)
       IN  /\ storedChats' = updatedChats
           /\ Commit(updatedChats, selectedChatId, updatedMessages, lastSelectedChatRef,
                     settings, storedSettings, TRUE)
    /\ UNCHANGED << post, storage, navigations, apiKeys, inputApiKeys, activeProviders, procs, timers,
                    toasts, requests, providerCalls, nextId >>

\* ------------------------------------------------------------------ dispatcher: POST
MaxReads == 3         \* reader.read() calls of one SSE adapter that deliver a value

\* The providers whose case calls the provider with fetch and adapts its SSE
\* stream, and the ones called through their SDK.
SseProviders == {"mistral", "xai", "perplexity", "lmstudio"}

SdkProviders == {"google", "anthropic", "openai"}

\* A message of a request body: { content, role }.
RequestMessage(role, content) == [role |-> role, content |-> content]

\* The messages of a request body: none, one of a user, a blank one, one with
\* a system message, and one with a message of another role and an assistant
\* message without content (an answer whose stream delivered nothing).
RequestMessages ==
    { <<>>,
      << RequestMessage("user", <<"h">>) >>,
      << RequestMessage("user", <<" ">>) >>,
      << RequestMessage("system", <<"h">>), RequestMessage("user", <<"h">>) >>,
      << RequestMessage("tool", <<"h">>), RequestMessage("assistant", <<>>),
         RequestMessage("user", <<"h">>) >> }

\* Request bodies: messages, apiKey, model.id, model.provider.
Requests ==
    [ messages : RequestMessages,
      apiKey : {"", "k"},
      modelId : {"", "m"},
      provider : {"", "openai-compatible"} \cup SseProviders \cup SdkProviders ]

\* An error text, with the status it quotes (0 when it quotes none).
Reason(text, status) == [text |-> text, status |-> status]

NoReason == Reason("", 0)

\* new Response(...): its status, the kind of its body ("json" for
\* JSON.stringify({ error }), "text" for a plain text, "stream") and the error
\* text a non-stream body carries.
Response(status, body, error) == [status |-> status, body |-> body, error |-> error]

NoResponse == Response(0, "", NoReason)

\* The request validation of POST, lines 45-64: the 400 answer, or NoResponse
\* when the request passes.
Validate(request) ==
    IF Len(request.messages) = 0
    THEN Response(400, "json", Reason("Please enter a message to chat with the AI", 0))
    ELSE IF request.apiKey = ""
    THEN Response(400, "json", Reason("API key is missing. Please add an API key in settings", 0))
    ELSE IF request.modelId = "" \/ request.provider = ""
    THEN Response(400, "json", Reason("Model information is missing. Please select a model", 0))
    ELSE NoResponse

\* validMessages of the SSE cases, lines 268-273: the messages with a role
\* of user, assistant or system and a non-blank content.
validMessages(msgs) ==
    SelectSeq(msgs, LAMBDA message :
        message.role \in {"user", "assistant", "system"} /\ Trim(message.content) # <<>>)

\* The messages of the request to the provider: mistralMessages (276-279),
\* validMessages of the other SSE cases, googleMessages (99-102), and the
\* messages of the body as they are for anthropic and openai (200, 235).
ProviderMessages(provider, msgs) ==
    IF provider = "mistral"
    THEN [k \in 1..Len(validMessages(msgs)) |->
             RequestMessage(IF validMessages(msgs)[k].role = "system" THEN "user"
                            ELSE validMessages(msgs)[k].role,
                            validMessages(msgs)[k].content)]
    ELSE IF provider \in SseProviders THEN validMessages(msgs)
    ELSE IF provider = "google"
    THEN [k \in 1..Len(msgs) |->
             RequestMessage(IF msgs[k].role = "user" THEN "user" ELSE "model", msgs[k].content)]
    ELSE msgs

\* errorMessage of a non-success provider status, lines 311-335 (mistral),
\* 453-477, 595-619 and 737-761 (the others, which add 400 to the validation case).
StatusMessage(provider, status) ==
    IF status = 401 THEN Reason("Invalid API key. Please check your API key in settings.", 0)
    ELSE IF status = 429 THEN Reason("Rate limit exceeded. Please try again later.", 0)
    ELSE IF status = 422 \/ (status = 400 /\ provider # "mistral")
    THEN Reason("API validation error: Check model name and message format.", status)
    ELSE Reason("API error", status)

\* One invocation of POST: its position, the request, the answer, the status
\* of the provider, the number of provider calls, and of the SSE adapter the
\* buffer, everything read from the provider, the contents enqueued, the
\* number of reads and the state of the ReadableStream it returns; how the
\* provider call failed ("provider", "timeout" or not at all), and whether the
\* error text of the answer embeds the provider's error body or the message
\* of the exception (errorDetails, error.message); the messages of the request
\* made to the provider.
Post(pc, request) ==
    [pc |-> pc, request |-> request, response |-> NoResponse, upstream |-> 0, calls |-> 0,
     buffer |-> <<>>, received |-> <<>>, out |-> <<>>, reads |-> 0, stream |-> "none",
     failure |-> "", details |-> FALSE, sent |-> <<>>]

\* No invocation.
NoPost == Post("idle", [messages |-> <<>>, apiKey |-> "", modelId |-> "", provider |-> ""])

\* The state of Home, which POST does not touch.
client ==
    << chats, messages, selectedChatId, lastSelectedChatRef, settings, apiKeys, inputApiKeys,
       activeProviders, storedChats, storedSettings, procs, timers, toasts, requests,
       providerCalls, nextId, route, navigations >>

\* POST up to the call of the provider: validation, switch (model.provider).
PostValidate ==
    /\ post.pc = "start"
    /\ post' =
        IF Validate(post.request) # NoResponse
        THEN [post EXCEPT !.pc = "done", !.response = Validate(post.request)]
        ELSE IF post.request.provider \in SseProviders
        THEN IF validMessages(post.request.messages) = <<>>
             THEN [post EXCEPT !.pc = "done",
                      !.response = Response(500, "json", Reason("No valid messages to send", 0))]
             ELSE [post EXCEPT !.pc = "fetch", !.calls = 1,
                      !.sent = ProviderMessages(post.request.provider, post.request.messages)]
        ELSE IF post.request.provider \in SdkProviders
        THEN [post EXCEPT !.pc = "sdk", !.calls = 1,
                 !.sent = ProviderMessages(post.request.provider, post.request.messages)]
        ELSE [post EXCEPT !.pc = "done",
                 !.response = Response(400, "json", Reason("Unsupported provider", 0))]
    /\ UNCHANGED << client, storage >>

\* Statuses a provider answers with.
Statuses == {200, 400, 401, 403, 404, 422, 429, 500, 503}

\* await fetch(provider) resolves with a status, lines 293-340 and 401-410.
PostUpstreamResponse(status) ==
    /\ post.pc = "fetch"
    /\ post' =
        IF status \in 200..299
        THEN [post EXCEPT !.pc = "stream", !.upstream = status, !.stream = "open",
                 !.response = Response(200, "stream", NoReason)]
        ELSE [post EXCEPT !.pc = "done", !.upstream = status,
                 !.failure = "provider", !.details = (status \notin {401, 429}),
                 !.response = Response(500, "json", StatusMessage(post.request.provider, status))]
    /\ UNCHANGED << client, storage >>

\* await fetch(provider) rejects with a network failure, lines 404-410.
PostUpstreamFailure ==
    /\ post.pc = "fetch"
    /\ post' = [post EXCEPT !.pc = "done", !.failure = "provider", !.details = TRUE,
                   !.response = Response(500, "json", Reason("fetch failed", 0))]
    /\ UNCHANGED << client, storage >>

\* The provider does not answer in time.  The SSE cases abort their fetch
\* after 60 s (lines 289-290), which rejects it into the catch of the case
\* (404-410); withTimeout rejects the SDK calls with 'Request timed out after
\* ...ms' (19-33) into the catch of their case, which for google is the one
\* that answers 200 (the fallback call of 160-165 timing out as well).
PostTimeout ==
    /\ post.pc \in {"fetch", "sdk"}
    /\ post' =
        IF post.request.provider \in SseProviders
        THEN [post EXCEPT !.pc = "done", !.failure = "timeout", !.details = TRUE,
                 !.response = Response(500, "json", Reason("This operation was aborted", 0))]
        ELSE IF post.request.provider = "google"
        THEN [post EXCEPT !.pc = "done", !.failure = "timeout", !.details = TRUE,
                 !.response = Response(200, "text", Reason("Google AI error: Request timed out", 0))]
        ELSE [post EXCEPT !.pc = "done", !.failure = "timeout", !.details = TRUE,
                 !.response = Response(500, "json", Reason("Request timed out", 0))]
    /\ UNCHANGED << client, storage >>

\* The SDK call of google, anthropic or openai returns a stream or throws,
\* lines 67-260: the catch of google answers 200 with the error as its text.
PostSdk(ok) ==
    /\ post.pc = "sdk"
    /\ post' =
        IF ok
        THEN [post EXCEPT !.pc = "done", !.stream = "open",
                 !.response = Response(200, "stream", NoReason)]
        ELSE IF post.request.provider = "google"
        THEN [post EXCEPT !.pc = "done", !.failure = "provider", !.details = TRUE,
                 !.response = Response(200, "text", Reason("Google AI error", 0))]
        ELSE [post EXCEPT !.pc = "done", !.failure = "provider", !.details = TRUE,
                 !.response = Response(500, "json", Reason("provider error", 0))]
    /\ UNCHANGED << client, storage >>

\* The text of a provider's SSE stream is a sequence of pieces: the prefix
\* "data: ", a payload piece, or the line feed.
NL == "\n"

\* JSON.parse(data) and parsed.choices[0].delta.content of the payloads that
\* parse: a delta with content, or an object without content.
JsonContent ==
    [ data \in {"{a}", "{b}", "{}"} |->
        CASE data = "{a}" -> <<"a">>
          [] data = "{b}" -> <<"b">>
          [] OTHER -> <<>> ]

\* The values reader.read() of the provider's body can deliver.
Chunks ==
    { <<"data: ", "{a}", NL>>, <<"data: ", "{b}", NL>>, <<"data: ", "{}", NL>>,
      <<"data: ", "{", NL>>, <<"data: ", "[DONE]", NL>>, <<"data: ", "{a}">>,
      <<"{b}", NL>>, <<": ping", NL>>, <<NL>> }

\* buffer.split('\n')
RECURSIVE SplitLines(_)
SplitLines(text) ==
    IF text = <<>> THEN << <<>> >>
    ELSE IF Head(text) = NL THEN << <<>> >> \o SplitLines(Tail(text))
    ELSE << <<Head(text)>> \o SplitLines(Tail(text))[1] >> \o Tail(SplitLines(Tail(text)))

\* The raw payload of a line enqueued when JSON.parse fails.
processLineRaw(line) ==
    IF line = <<>> \/ line[1] # "data: " THEN <<>>
    ELSE IF Tail(line) = <<"[DONE]">> THEN <<>>
    ELSE IF Len(Tail(line)) = 1 /\ Tail(line)[1] \in DOMAIN JsonContent
    THEN (IF JsonContent[Tail(line)[1]] # <<>> THEN << JsonContent[Tail(line)[1]] >> ELSE <<>>)
    ELSE << Tail(line) >>

\* The body of for (const line of lines), lines 365-389: what one line
\* enqueues.  JSON.parse throws on anything but one complete JSON text; the
\* catch logs and goes on.
processLine(line) ==
    IF line = <<>> \/ line[1] # "data: " THEN <<>>
    ELSE IF Tail(line) = <<"[DONE]">> THEN <<>>
    ELSE IF Len(Tail(line)) = 1 /\ Tail(line)[1] \in DOMAIN JsonContent
    THEN (IF JsonContent[Tail(line)[1]] # <<>> THEN << JsonContent[Tail(line)[1]] >> ELSE <<>>)
    ELSE <<>>

RECURSIVE processLines(_)
processLines(lines) ==
    IF lines = <<>> THEN <<>> ELSE processLine(Head(lines)) \o processLines(Tail(lines))

\* buffer = lines.pop() || ''
PoppedBuffer(lines) == lines[Len(lines)]

\* reader.read() of the SSE adapter delivers a value, lines 353-391.
PostRead(chunk) ==
    /\ post.pc = "stream"
    /\ post.reads < MaxReads
    /\ post' = [post EXCEPT
                   !.buffer = PoppedBuffer(SplitLines(post.buffer \o chunk)),
                   !.out = post.out \o
                       processLines(SubSeq(SplitLines(post.buffer \o chunk), 1,
                                           Len(SplitLines(post.buffer \o chunk)) - 1)),
                   !.received = post.received \o chunk,
                   !.reads = post.reads + 1]
    /\ UNCHANGED << client, storage >>

\* reader.read() reports done: controller.close(), line 393.
PostReadDone ==
    /\ post.pc = "stream"
    /\ post' = [post EXCEPT !.pc = "done", !.stream = "closed"]
    /\ UNCHANGED << client, storage >>

\* reader.read() throws: controller.error(error), lines 394-397.
PostReadError ==
    /\ post.pc = "stream"
    /\ post' = [post EXCEPT !.pc = "done", !.stream = "errored"]
    /\ UNCHANGED << client, storage >>

\* What handleSendMessage shows for an answer that is not ok, lines 1093-1095
\* and 1174-1177: toast.error(`Error: API error: ${response.status}`).
clientErrorMessage(response) ==
    IF response.status \in 200..299 THEN NoReason ELSE Reason("API error", response.status)

\* What handleSendMessage makes the content of the assistant message from an
\* answer that is ok and carries a plain text, lines 1098-1137: the text.
clientContent(response) ==
    IF response.status \in 200..299 /\ response.body = "text" THEN response.error ELSE NoReason

\* ------------------------------------------------------------------ storage
\* lib/storage.ts and the pages that use it.  An item of localStorage and a
\* cache hold no value (<<>>: getItem returns null, the cache is null) or one
\* value v (<< v >>).

\* The state of the module and of the two items it fronts in a newly loaded
\* document, before a page mounts: page is the mounted page, settings and
\* apiKeys its React state.
Storage(settingsItem, apiKeysItem) ==
    [settingsItem |-> settingsItem, apiKeysItem |-> apiKeysItem,
     settingsCache |-> <<>>, apiKeysCache |-> <<>>,
     page |-> "none", settings |-> DefaultSettings, apiKeys |-> <<>>]

NoStorage == Storage(<<>>, <<>>)

\* What storage.getSettings() returns, lines 30-48.
getSettingsResult(st) ==
    IF st.settingsCache # <<>> THEN st.settingsCache[1]
    ELSE IF st.settingsItem # <<>> THEN st.settingsItem[1]
    ELSE DefaultSettings

\* storage.getSettings(), lines 30-48: caches what it returns.
getSettings(st) == [st EXCEPT !.settingsCache = << getSettingsResult(st) >>]

\* storage.saveSettings(settings), lines 50-58.
saveSettings(st, newSettings) ==
    [st EXCEPT !.settingsItem = << newSettings >>, !.settingsCache = << newSettings >>]

\* What storage.getApiKeys() returns, lines 60-77.
getApiKeysResult(st) ==
    IF st.apiKeysCache # <<>> THEN st.apiKeysCache[1]
    ELSE IF st.apiKeysItem # <<>> THEN st.apiKeysItem[1]
    ELSE <<>>

\* storage.getApiKeys(), lines 60-77.
getApiKeys(st) == [st EXCEPT !.apiKeysCache = << getApiKeysResult(st) >>]

\* localStorage.setItem('apiKeys', JSON.stringify(keys)) written by a page.
setItemApiKeys(st, keys) == [st EXCEPT !.apiKeysItem = << keys >>]

\* storage.saveApiKeys without its last statement, the update of the cache.
saveApiKeysItemOnly(st, keys) == [st EXCEPT !.apiKeysItem = << keys >>]

\* storage.saveApiKeys(apiKeys), lines 79-87.
saveApiKeys(st, keys) == [st EXCEPT !.apiKeysItem = << keys >>, !.apiKeysCache = << keys >>]

\* { ...apiKeys, [providerId]: key }
WithKey(keys, providerId, key) ==
    IF \E i \in 1..Len(keys) : keys[i].provider = providerId
    THEN [i \in 1..Len(keys) |->
             IF keys[i].provider = providerId THEN Key(providerId, key) ELSE keys[i]]
    ELSE Append(keys, Key(providerId, key))

\* The mount effect of Home on the storage, page.tsx lines 306-365, s1 being
\* the storage after its getSettings() and getApiKeys().
HomeMountEffect(s1) ==
    IF s1.apiKeysItem # <<>>
    THEN saveApiKeys(s1, SelectSeq(s1.apiKeysItem[1], LAMBDA e : e.key # ""))
    ELSE IF getApiKeysResult(s1) # <<>> THEN s1
    ELSE setItemApiKeys(saveApiKeys(s1, testApiKeys), testApiKeys)

\* The renders of Home after its mount effects, lines 436-561: r is what
\* RenderSettings makes of the settings and keys loaded; a fallback saves.
HomeMounted(s2, r) ==
    [(IF r.saved THEN saveSettings(s2, r.settings) ELSE s2)
        EXCEPT !.page = "home", !.settings = r.settings, !.apiKeys = getApiKeysResult(s2)]

\* Home mounts: in a new document, or coming back from the settings page
\* (the module and its caches live on across client-side navigation).
HomeMount ==
    /\ storage.page # "home"
    /\ storage' =
        HomeMounted(HomeMountEffect(getApiKeys(getSettings(storage))),
                    RenderSettings(<<>>, NoChat, getSettingsResult(storage),
                        getApiKeysResult(HomeMountEffect(getApiKeys(getSettings(storage))))))
    /\ UNCHANGED << client, post >>

\* onSelectModel of Home with no conversation selected, lines 1659-1676.
HomeSelectModel(modelId) ==
    /\ storage.page = "home"
    /\ storage' = [saveSettings(storage, [storage.settings EXCEPT !.defaultModelId = modelId])
                      EXCEPT !.settings = [storage.settings EXCEPT !.defaultModelId = modelId]]
    /\ UNCHANGED << client, post >>

\* The mount effect of the models tab on the storage, s1 being the storage
\* after its getApiKeys().
ModelsTabMountEffect(s1) ==
    IF s1.apiKeysItem # <<>> THEN saveApiKeys(s1, s1.apiKeysItem[1])
    ELSE IF getApiKeysResult(s1) # <<>> THEN setItemApiKeys(s1, getApiKeysResult(s1))
    ELSE s1

\* The settings page mounts: its load timer calls getSettings(), the models
\* tab loads the keys.
SettingsMount ==
    /\ storage.page # "settings"
    /\ storage' = [ModelsTabMountEffect(getApiKeys(getSettings(storage)))
                      EXCEPT !.page = "settings", !.settings = getSettingsResult(storage),
                             !.apiKeys = getApiKeysResult(
                                 ModelsTabMountEffect(getApiKeys(getSettings(storage))))]
    /\ UNCHANGED << client, post >>

\* handleApiKeyChange of the models tab up to its first await: the key is
\* the trimmed input.
handleApiKeyChange(providerId, apiKey) ==
    /\ storage.page = "settings"
    /\ storage' =
        [saveApiKeys(setItemApiKeys(storage, WithKey(storage.apiKeys, providerId, apiKey)),
                     WithKey(storage.apiKeys, providerId, apiKey))
            EXCEPT !.apiKeys = WithKey(storage.apiKeys, providerId, apiKey)]
    /\ UNCHANGED << client, post >>

\* handleAddModel of the settings page.
handleAddModel(model) ==
    /\ storage.page = "settings"
    /\ storage.settings.models = <<>>
    /\ storage' = [saveSettings(storage, [storage.settings EXCEPT !.models = Append(@, model)])
                      EXCEPT !.settings = [storage.settings EXCEPT !.models = Append(@, model)]]
    /\ UNCHANGED << client, post >>

\* handleDeleteModel of the settings page.
handleDeleteModel(modelId) ==
    /\ storage.page = "settings"
    /\ storage' =
        [saveSettings(storage, [storage.settings EXCEPT
                                   !.models = SelectSeq(@, LAMBDA m : m.id # modelId)])
            EXCEPT !.settings = [storage.settings EXCEPT
                                    !.models = SelectSeq(@, LAMBDA m : m.id # modelId)]]
    /\ UNCHANGED << client, post >>

\* The document is reloaded: a new module with null caches, no page mounted.
Reload ==
    /\ storage.page # "none"
    /\ storage' = Storage(storage.settingsItem, storage.apiKeysItem)
    /\ UNCHANGED << client, post >>

\* The items a document can find when it loads.
StoredApiKeys ==
    { <<>>, << <<>> >>, << <<Key("google", "k")>> >>, << <<Key("google", "")>> >>,
      << <<Key("mistral", ""), Key("google", "k")>> >> }

StoredSettings ==
    { <<>>, << DefaultSettings >>, << [defaultModelId |-> CustomModel.id, models |-> <<CustomModel>>] >> }

\* ------------------------------------------------------------------ specification
\* The page opened with a credential for the provider of the default model.
Init == InitFrom(GoogleKey) /\ post = NoPost /\ storage = NoStorage

\* The page opened with any of the credential stores.
InitCredentials ==
    \E profile \in Profiles : InitFrom(profile) /\ post = NoPost /\ storage = NoStorage

MaxMessages == 2 * MaxRequests
MaxVersions == MaxRequests

Next ==
    \/ \E input \in Inputs : HeroSubmit(input)
    \/ \E input \in Inputs : ChatInputSubmit(input)
    \/ \E t \in timers : UpdateChatWithLoadingTimeout(t)
    \/ \E p \in procs, ok \in BOOLEAN : SendResponse(p, ok)
    \/ \E p \in procs, text \in Deltas : SendDelta(p, text)
    \/ \E p \in procs : SendDone(p)
    \/ \E p \in procs : SendReadError(p)
    \/ \E k \in 1..MaxMessages : handleRewrite(k)
    \/ \E p \in procs, ok \in BOOLEAN : RewriteResponse(p, ok)
    \/ \E p \in procs, text \in Deltas : RewriteDelta(p, text)
    \/ \E p \in procs : RewriteDone(p)
    \/ \E p \in procs : RewriteReadError(p)
    \/ \E k \in 1..MaxMessages, versionIndex \in 0..MaxVersions : handleVersionSelect(k, versionIndex)
    \/ \E chatId \in 1..nextId : handleSelectChat(chatId)
    \/ \E t \in timers : SelectChatTimeout(t)
    \/ handleNewChat
    \/ \E chatId \in 1..nextId : handleDeleteChat(chatId)
    \/ \E modelId \in SelectableModels : onSelectModel(modelId)
    \/ \E chatId \in 1..nextId, editingTitle \in Titles : handleSaveTitle(chatId, editingTitle)

Spec == Init /\ [][Next]_vars

\* The input surfaces and the send pipeline alone, over every credential store.
NextCredentials ==
    \/ \E input \in PunctuatedInputs : HeroSubmit(input)
    \/ \E input \in PunctuatedInputs : ChatInputSubmit(input)
    \/ \E t \in timers : UpdateChatWithLoadingTimeout(t)
    \/ \E p \in procs, ok \in BOOLEAN : SendResponse(p, ok)
    \/ \E p \in procs, text \in Deltas : SendDelta(p, text)
    \/ \E p \in procs : SendDone(p)
    \/ \E p \in procs : SendReadError(p)

SpecCredentials == InitCredentials /\ [][NextCredentials]_vars

\* One invocation of POST, for every request body.
InitDispatcher ==
    /\ InitFrom(GoogleKey)
    /\ \E request \in Requests : post = Post("start", request)
    /\ storage = NoStorage

NextDispatcher ==
    \/ PostValidate
    \/ \E status \in Statuses : PostUpstreamResponse(status)
    \/ PostUpstreamFailure
    \/ PostTimeout
    \/ \E ok \in BOOLEAN : PostSdk(ok)
    \/ \E chunk \in Chunks : PostRead(chunk)
    \/ PostReadDone
    \/ PostReadError

SpecDispatcher == InitDispatcher /\ [][NextDispatcher]_vars

\* The conversations localStorage 'acumen-chats' can hold when the page is
\* opened again: conversations with one completed exchange, the newest first.
SavedChat(id) ==
    [id |-> id, title |-> <<"h">>, modelId |-> DEFAULT_MODEL_ID,
     messages |-> << Message(id - 1, "user", <<"h">>, FALSE, <<>>, Undefined),
                     Message(id + 1, "assistant", <<"a">>, FALSE,
                             << Version(id + 2, <<"a">>) >>, 0) >>]

SavedLists == { << SavedChat(6) >>, << SavedChat(6), SavedChat(2) >> }

\* localStorage 'lastSelectedChatId' when the page is opened: absent, the id
\* of a conversation, or the id of one that was deleted since.
LastSelected == {NoChat, 2, 6, 10}

\* The selection the mount effect restores, lines 374-405.
RestoredSelection(savedChats, lastSelectedChatId) ==
    IF Len(savedChats) = 0 THEN NoChat
    ELSE IF lastSelectedChatId # NoChat /\ FindChat(savedChats, lastSelectedChatId) # 0
    THEN lastSelectedChatId
    ELSE savedChats[1].id

\* The state after the mount effects, their 10 ms timer and the renders, for
\* a page opened with saved conversations and a key for google.
InitSaved(savedChats, sel) ==
    /\ chats = savedChats
    /\ storedChats = savedChats
    /\ selectedChatId = sel
    /\ lastSelectedChatRef = sel
    /\ messages = IF sel = NoChat THEN <<>> ELSE savedChats[FindChat(savedChats, sel)].messages
    /\ apiKeys = MountApiKeys(GoogleKey)
    /\ inputApiKeys = GoogleKey.apiKeys
    /\ activeProviders = GoogleKey.activeProviders
    /\ settings = DefaultSettings
    /\ storedSettings = DefaultSettings
    /\ procs = {}
    /\ timers = {}
    /\ toasts = 0
    /\ requests = 0
    /\ providerCalls = 0
    /\ nextId = 11
    /\ route = "home"
    /\ navigations = 0

InitReload ==
    /\ \E savedChats \in SavedLists, lastSelectedChatId \in LastSelected :
           InitSaved(savedChats, RestoredSelection(savedChats, lastSelectedChatId))
    /\ post = NoPost
    /\ storage = NoStorage

\* The page opened again on its saved conversations.
SpecReload == InitReload /\ [][Next]_vars

\* The storage module under the pages that use it, from a newly loaded document.
InitStorage ==
    /\ InitFrom(GoogleKey)
    /\ post = NoPost
    /\ \E settingsItem \in StoredSettings, apiKeysItem \in StoredApiKeys :
           storage = Storage(settingsItem, apiKeysItem)

NextStorage ==
    \/ HomeMount
    \/ \E modelId \in {DEFAULT_MODEL_ID, getModels("mistral")[1]} : HomeSelectModel(modelId)
    \/ SettingsMount
    \/ \E providerId \in {"google", "mistral"}, apiKey \in {"", "k"} :
           handleApiKeyChange(providerId, apiKey)
    \/ handleAddModel(CustomModel)
    \/ handleDeleteModel(CustomModel.id)
    \/ Reload

SpecStorage == InitStorage /\ [][NextStorage]_vars

\* ------------------------------------------------------------------ properties
\* The messages of every conversation of a conversation list.
MessagesOf(c) ==
    UNION { { c[i].messages[j] : j \in 1..Len(c[i].messages) } : i \in 1..Len(c) }

DisplayedOf(msgs) == { msgs[i] : i \in 1..Len(msgs) }

\* The displayed list, the in-memory conversations and the persisted ones.
EveryMessage == DisplayedOf(messages) \cup MessagesOf(chats) \cup MessagesOf(storedChats)

\* d1 + d2 + ... + dn
RECURSIVE Concat(_)
Concat(chunks) ==
    IF chunks = <<>> THEN <<>> ELSE Head(chunks) \o Concat(Tail(chunks))

\* C1: whenever no response stream is in flight, no assistant message is
\* loading, neither in the displayed list nor in memory nor in the persisted
\* list: a send that failed (a non-success answer, a failed read) has reset
\* its assistant message to isLoading = false.
C1_NoLoadingWithoutStream ==
    procs = {} => \A m \in EveryMessage : ~(m.role = "assistant" /\ m.isLoading)

\* C2: when the stream of a first generation ends normally after the chunks
\* d1..dn, the finalized assistant message is the last message of its
\* conversation, in memory and in the persisted list, with content
\* d1 + ... + dn, isLoading = false, exactly one version holding the same
\* content, and currentVersionIndex = 0 (for a conversation that still exists).
C2_FirstGenerationFinalized ==
    [][\A p \in procs :
        (SendDone(p) /\ FindChat(chats, p.chatId) # 0) =>
            \A c \in {chats', storedChats'} :
                LET i == FindChat(c, p.chatId)
                    final == c[i].messages[Len(c[i].messages)]
                IN  /\ i # 0
                    /\ Len(c[i].messages) = Len(p.currentMessages) + 1
                    /\ final.id = p.aiMessageId
                    /\ final.role = "assistant"
                    /\ final.content = Concat(p.chunks)
                    /\ final.isLoading = FALSE
                    /\ Len(final.versions) = 1
                    /\ final.versions[1].content = Concat(p.chunks)
                    /\ final.currentVersionIndex = 0]_vars

\* A first generation that read the chunks "a" and "b" has been finalized.
C2_Finalized ==
    /\ chats = storedChats
    /\ \E m \in MessagesOf(storedChats) :
        /\ m.role = "assistant"
        /\ ~m.isLoading
        /\ m.content = <<"a", "b">>
        /\ Len(m.versions) = 1
        /\ m.versions[1].content = <<"a", "b">>
        /\ m.currentVersionIndex = 0

\* currentVersionIndex is an index of versions and content is that version.
VersionIndexValid(m) ==
    /\ m.currentVersionIndex \in 0..(Len(m.versions) - 1)
    /\ m.content = m.versions[m.currentVersionIndex + 1].content

\* C3 as stated: every message with versions, in the displayed list, in
\* memory and in the persisted list, has currentVersionIndex within
\* 0..versions.length-1 and content equal to versions[currentVersionIndex].content.
C3_VersionIndexAlways ==
    \A m \in EveryMessage : hasVersions(m) => VersionIndexValid(m)

\* C3 amended: every message with versions has currentVersionIndex within
\* 0..versions.length-1 and content equal to versions[currentVersionIndex].content
\* in memory and in the persisted list at every step, and in the displayed
\* list whenever the message is not loading.
C3_VersionIndexWhenSettled ==
    /\ \A m \in MessagesOf(chats) \cup MessagesOf(storedChats) :
        hasVersions(m) => VersionIndexValid(m)
    /\ \A m \in DisplayedOf(messages) :
        (hasVersions(m) /\ ~m.isLoading) => VersionIndexValid(m)

\* An earlier version of a regenerated message has been selected.
C3_EarlierVersionSelected ==
    \E m \in DisplayedOf(messages) \cap MessagesOf(chats) \cap MessagesOf(storedChats) :
        /\ Len(m.versions) = 2
        /\ ~m.isLoading
        /\ m.currentVersionIndex = 0
        /\ m.versions[1].content # m.versions[2].content

\* C4 as stated: a message with isLoading = true has no versions.
C4_LoadingHasNoVersions ==
    \A m \in EveryMessage : m.isLoading => ~hasVersions(m)

\* C4 amended: a message with isLoading = true has no versions in memory and
\* in the persisted list, and the message of a first generation in flight has
\* no versions anywhere; a displayed message that is loading and has versions
\* is one handleRewrite marked, with currentVersionIndex = versions.length.
C4_LoadingVersionsOnlyInRegeneration ==
    /\ \A m \in MessagesOf(chats) \cup MessagesOf(storedChats) :
        m.isLoading => ~hasVersions(m)
    /\ \A p \in procs :
        p.kind = "send" => \A m \in EveryMessage : m.id = p.aiMessageId => ~hasVersions(m)
    /\ \A m \in DisplayedOf(messages) :
        (m.isLoading /\ hasVersions(m)) => m.currentVersionIndex = Len(m.versions)

\* A regeneration is in flight: the displayed message is loading and keeps
\* its versions, the message in memory is the finalized one.
C4_Regenerating ==
    \E p \in procs :
        /\ p.kind = "rewrite"
        /\ \E m \in DisplayedOf(messages) :
            m.id = p.message.id /\ m.isLoading /\ hasVersions(m)
        /\ \E m \in MessagesOf(chats) :
            m.id = p.message.id /\ ~m.isLoading /\ hasVersions(m)

\* C5: when the regeneration of a finalized assistant message (content C,
\* versions V) completes with the new content N = d1 + ... + dn, the message
\* in the persisted list, and in memory, has versions = V followed by one new
\* entry with content N, currentVersionIndex = length(V), content = N and
\* isLoading = false; a message that was persisted is still persisted.
C5_RegenerationAppendsVersion ==
    [][\A p \in procs :
        (RewriteDone(p) /\ hasVersions(p.message)) =>
            /\ chats' = storedChats'
            /\ (\E m \in MessagesOf(storedChats) : m.id = p.message.id)
                    => \E m \in MessagesOf(storedChats') : m.id = p.message.id
            /\ \A m \in MessagesOf(storedChats') :
                m.id = p.message.id =>
                    /\ Len(m.versions) = Len(p.message.versions) + 1
                    /\ SubSeq(m.versions, 1, Len(p.message.versions)) = p.message.versions
                    /\ m.versions[Len(m.versions)].content = Concat(p.chunks)
                    /\ m.currentVersionIndex = Len(p.message.versions)
                    /\ m.content = Concat(p.chunks)
                    /\ ~m.isLoading]_vars

\* A regeneration has completed: the persisted message holds the first
\* content and the regenerated one, and shows the regenerated one.
C5_Regenerated ==
    /\ procs = {}
    /\ \E m \in MessagesOf(storedChats) :
        /\ Len(m.versions) = 2
        /\ m.currentVersionIndex = 1
        /\ m.content = m.versions[2].content
        /\ m.versions[1].content # m.versions[2].content
        /\ ~m.isLoading

\* Every conversation of d is the conversation of c at the same place, but
\* for the messages with the given id.
OthersUnchanged(c, d, id) ==
    /\ Len(d) = Len(c)
    /\ \A n \in 1..Len(c) :
        /\ [d[n] EXCEPT !.messages = <<>>] = [c[n] EXCEPT !.messages = <<>>]
        /\ Len(d[n].messages) = Len(c[n].messages)
        /\ \A j \in 1..Len(c[n].messages) :
            c[n].messages[j].id # id => d[n].messages[j] = c[n].messages[j]

\* C6: handleVersionSelect(message, i) with i an index of message.versions
\* makes no request, leaves the message (displayed, in memory, persisted) with
\* content = message.versions[i].content, currentVersionIndex = i and the
\* versions of the message it was given, leaves every other message and
\* conversation in memory and in the persisted list as it was, displays no
\* other message that was not displayed or in memory before, and selecting i
\* again changes nothing.
C6_VersionSelectOnlySelects ==
    [][\A k \in 1..MaxMessages, i \in 0..MaxVersions :
        handleVersionSelect(k, i) =>
            /\ requests' = requests
            /\ providerCalls' = providerCalls
            /\ procs' = procs
            /\ \A m \in DisplayedOf(messages') \cup MessagesOf(chats') \cup MessagesOf(storedChats') :
                m.id = messages[k].id =>
                    /\ m.content = messages[k].versions[i + 1].content
                    /\ m.currentVersionIndex = i
                    /\ m.versions = messages[k].versions
                    /\ selectVersion(m, i) = m
            /\ \A m \in DisplayedOf(messages') :
                m.id # messages[k].id => m \in DisplayedOf(messages) \cup MessagesOf(chats)
            /\ OthersUnchanged(chats, chats', messages[k].id)
            /\ OthersUnchanged(storedChats, storedChats', messages[k].id)
            /\ selectedChatId' = selectedChatId]_vars

\* Version 0 of a regenerated message has been selected without a request:
\* the two responses so far are the generation and the regeneration.
C6_VersionSelected ==
    /\ requests = 2
    /\ procs = {}
    /\ \E k \in 1..Len(messages) :
        /\ Len(messages[k].versions) = 2
        /\ messages[k].currentVersionIndex = 0
        /\ messages[k].content = messages[k].versions[1].content
        /\ messages[k].content # messages[k].versions[2].content
        /\ messages[k] \in MessagesOf(chats)
        /\ messages[k] \in MessagesOf(storedChats)

\* The user messages of d that c does not have.
NewUserMessages(c, d) ==
    { m \in MessagesOf(d) : m.role = "user" /\ m.id \notin { x.id : x \in MessagesOf(c) } }

\* C7: an input that is non-empty after trimming, submitted from HeroSection
\* or from ChatInput and sent, adds exactly one user message, whose content is
\* the trimmed input; an empty or whitespace-only input creates no
\* conversation and no message and leaves storage unchanged.
C7_SubmitAddsTrimmedUserMessage ==
    [][\A input \in Inputs :
        (HeroSubmit(input) \/ ChatInputSubmit(input)) =>
            IF Trim(input) = <<>>
            THEN chats' = chats /\ storedChats' = storedChats /\ messages' = messages
            ELSE requests' = requests + 1 =>
                    \A c \in { <<chats, chats'>>, <<storedChats, storedChats'>> } :
                        /\ Cardinality(NewUserMessages(c[1], c[2])) = 1
                        /\ \A m \in NewUserMessages(c[1], c[2]) : m.content = Trim(input)]_vars

\* The provider of a model id: of a user-declared model, else of the catalog.
ProviderOfModel(modelId, st) ==
    LET i == FirstIndex(Ids(st.models), modelId)
        ps == { p \in ProviderIds : \E n \in 1..Len(getModels(p)) : getModels(p)[n] = modelId }
    IN  IF i # 0 THEN st.models[i].provider
        ELSE IF ps # {} THEN CHOOSE p \in ps : TRUE
        ELSE ""

\* C8: a send of a non-empty input while the provider of the selected model
\* (the conversation's modelId, else the default model) has no non-empty
\* credential in the store the page was opened with is blocked: no
\* conversation, no message, no request, exactly one notification.
C8_SendBlockedWithoutCredential ==
    [][\A input \in Inputs :
        ( /\ HeroSubmit(input) \/ ChatInputSubmit(input)
          /\ Trim(input) # <<>>
          /\ KeyOf(inputApiKeys,
                   ProviderOfModel(CurrentModelId(chats, selectedChatId, settings), settings)) = "" )
        => /\ chats' = chats
           /\ storedChats' = storedChats
           /\ messages' = messages
           /\ requests' = requests
           /\ procs' = procs
           /\ toasts' = toasts + 1]_vars

\* C9: a send whose model names a provider the dispatcher does not support
\* leaves the conversation list unchanged, displayed, in memory and persisted,
\* and its request is answered without a provider call.
C9_UnsupportedProviderRejected ==
    [][/\ \A input \in Inputs :
            ( /\ HeroSubmit(input) \/ ChatInputSubmit(input)
              /\ Trim(input) # <<>>
              /\ selectedModelWithApiKey.id # ""
              /\ selectedModelWithApiKey.provider \notin SupportedProviders )
            => chats' = chats /\ storedChats' = storedChats /\ messages' = messages
       /\ \A p \in procs, ok \in BOOLEAN :
            (SendResponse(p, ok) /\ p.model.provider \notin SupportedProviders)
            => ~ok /\ providerCalls' = providerCalls]_vars

\* C10: at most one assistant response is in flight per conversation.
C10_OneResponsePerConversation ==
    \A p, q \in procs : p.chatId = q.chatId => p = q

\* a is a prefix of b.
IsPrefix(a, b) == Len(a) <= Len(b) /\ SubSeq(b, 1, Len(a)) = a

\* The ids of the messages of a conversation but for a trailing assistant
\* message that is loading.
SettledIds(msgs) ==
    IF msgs # <<>> /\ msgs[Len(msgs)].role = "assistant" /\ msgs[Len(msgs)].isLoading
    THEN Ids(SubSeq(msgs, 1, Len(msgs) - 1))
    ELSE Ids(msgs)

\* C11: in every step, for every conversation that stays in the persisted
\* list, the ids of its persisted messages (but for a trailing loading
\* assistant message) are a prefix of the ids persisted after the step: no
\* user message and no finalized assistant message is removed, replaced by
\* another id or reordered.
C11_PersistedIdsOnlyGrow ==
    [][\A i \in 1..Len(storedChats), j \in 1..Len(storedChats') :
        storedChats'[j].id = storedChats[i].id =>
            IsPrefix(SettledIds(storedChats[i].messages), Ids(storedChats'[j].messages))]_vars

\* The conversations of c with another id than chatId, in order.
OtherChats(c, chatId) == SelectSeq(c, LAMBDA chat : chat.id # chatId)

C13_InFlightWriteKeepsLatest ==
    [][\A p \in procs :
        /\ RewriteDone(p) =>
            /\ OthersUnchanged(chats, chats', p.message.id)
            /\ OthersUnchanged(chats, storedChats', p.message.id)
        /\ (SendDone(p) \/ \E text \in Deltas : SendDelta(p, text)) =>
            /\ OthersUnchanged(chats, chats', p.aiMessageId)
            /\ OthersUnchanged(chats, storedChats', p.aiMessageId)]_vars

\* C14: once another conversation is selected than the one a stream was
\* started in, or that conversation is deleted, a chunk of that stream changes
\* neither the displayed list nor the in-memory list nor the persisted list.
C14_NoDeltaAfterSwitchOrDelete ==
    [][\A p \in procs, text \in Deltas :
        ( /\ SendDelta(p, text) \/ RewriteDelta(p, text)
          /\ selectedChatId # p.chatId \/ FindChat(chats, p.chatId) = 0 )
        => UNCHANGED << chats, messages, storedChats >>]_vars

\* C15: every step that changes the in-memory conversation list leaves the
\* persisted list equal to it, and after the k-th chunk of a stream (of a
\* generation or of a regeneration) the persisted content of the streaming
\* message is d1 + ... + dk.
C15_WriteThrough ==
    [][/\ chats' # chats => storedChats' = chats'
       /\ \A p \in procs, text \in Deltas :
            (SendDelta(p, text) \/ RewriteDelta(p, text)) =>
                \A m \in MessagesOf(storedChats') :
                    m.id = p.aiMessageId => m.content = Concat(Append(p.chunks, text))]_vars

\* C16: when reader.read() of a generation fails after the chunks d1..dk
\* (k >= 0) and the conversation still exists, the assistant message is in
\* its conversation, in memory and persisted, with content d1 + ... + dk, and
\* exactly one notification has been added.
C16_ReadErrorKeepsPartialContent ==
    [][\A p \in procs :
        (SendReadError(p) /\ FindChat(chats, p.chatId) # 0) =>
            /\ toasts' = toasts + 1
            /\ \A c \in {chats', storedChats'} :
                \E m \in DisplayedOf(c[FindChat(c, p.chatId)].messages) :
                    m.id = p.aiMessageId /\ m.content = Concat(p.chunks)]_vars

\* The positions of the line feeds of a text.
LineFeeds(text) == { i \in 1..Len(text) : text[i] = NL }

\* The position of the k-th line feed of a text (0 for k = 0).
LineFeed(text, k) ==
    IF k = 0 THEN 0
    ELSE CHOOSE i \in LineFeeds(text) : Cardinality({ j \in LineFeeds(text) : j <= i }) = k

\* The complete lines of a text: the pieces before its k-th line feed and
\* after the one before.
FramesOf(text) ==
    [ k \in 1..Cardinality(LineFeeds(text)) |->
        SubSeq(text, LineFeed(text, k - 1) + 1, LineFeed(text, k) - 1) ]

\* A data frame whose payload is valid JSON with a delta content.
IsDeltaFrame(line) ==
    /\ Len(line) = 2
    /\ line[1] = "data: "
    /\ line[2] \in {"{a}", "{b}"}

\* The delta contents of the valid frames among the first n frames, in order.
RECURSIVE DeltasOf(_, _)
DeltasOf(frames, n) ==
    IF n = 0 THEN <<>>
    ELSE DeltasOf(frames, n - 1) \o
         (IF IsDeltaFrame(frames[n]) THEN << << SubSeq(frames[n][2], 2, 2) >> >> ELSE <<>>)

Sentinel == <<"data: ", "[DONE]">>

\* The number of frames before the first sentinel frame (all when there is none).
BeforeSentinel(frames) ==
    IF \E k \in 1..Len(frames) : frames[k] = Sentinel
    THEN (CHOOSE k \in 1..Len(frames) :
            frames[k] = Sentinel /\ \A j \in 1..(k - 1) : frames[j] # Sentinel) - 1
    ELSE Len(frames)

\* C17: once an SSE adapter has read the sentinel frame data: [DONE], its
\* output stream is closed without error and the deltas it produced are the
\* ones of the frames before the sentinel.
C17_SentinelEndsStream ==
    (post.stream # "none" /\ BeforeSentinel(FramesOf(post.received)) < Len(FramesOf(post.received)))
    => /\ post.stream = "closed"
       /\ post.out = DeltasOf(FramesOf(post.received), BeforeSentinel(FramesOf(post.received)))

\* C18: every read of an SSE adapter leaves the deltas emitted equal to the
\* delta contents of the valid frames received so far, in input order,
\* whatever malformed frames lie among them, leaves the stream open and
\* without error, and adds no notification.
C18_MalformedFramesSkipped ==
    [][\A chunk \in Chunks :
        PostRead(chunk) =>
            /\ post'.out = DeltasOf(FramesOf(post.received \o chunk),
                                    Len(FramesOf(post.received \o chunk)))
            /\ post'.stream = "open"
            /\ post'.pc = "stream"
            /\ post'.response = post.response
            /\ toasts' = toasts]_vars

\* A malformed frame was read between two valid frames, and both deltas
\* were emitted before the stream closed.
C18_MalformedBetweenValid ==
    /\ post.received = <<"data: ", "{a}", NL, "data: ", "{", NL, "data: ", "{b}", NL>>
    /\ post.out = << <<"a">>, <<"b">> >>
    /\ post.stream = "closed"

\* The first of the three defects a request has.
RejectionCase(request) ==
    IF Len(request.messages) = 0 THEN "messages"
    ELSE IF request.apiKey = "" THEN "credential"
    ELSE IF request.modelId = "" \/ request.provider = "" THEN "model"
    ELSE ""

\* C19: a request without messages, without a credential or without model
\* id or provider is answered without a provider call, and against a request
\* of another of the three cases both the reason of the answer and what the
\* client shows for it differ.
C19_RejectionReasonsReachUser ==
    (post.pc = "done" /\ RejectionCase(post.request) # "") =>
        /\ post.calls = 0
        /\ post.response.status \notin 200..299
        /\ \A r \in Requests :
            RejectionCase(r) \notin {"", RejectionCase(post.request)} =>
                /\ Validate(r).error # post.response.error
                /\ clientErrorMessage(Validate(r)) # clientErrorMessage(post.response)

\* The outcome the claim gives a provider status.
ExpectedOutcome(status) ==
    IF status \in {401, 403} THEN "invalid-credential"
    ELSE IF status = 429 THEN "rate-limited"
    ELSE IF status \in 500..599 THEN "provider-unavailable"
    ELSE "provider-error"

\* The outcome the error text of an answer stands for.
OutcomeOf(response) ==
    IF response.error.text = StatusMessage("", 401).text THEN "invalid-credential"
    ELSE IF response.error.text = StatusMessage("", 429).text THEN "rate-limited"
    ELSE "provider-error"

\* C20: a non-success status of the provider gives the invalid-credential
\* outcome for 401 and 403, the rate-limited outcome for 429, the
\* provider-unavailable outcome for 5xx and for any other status a provider
\* error carrying the status.
C20_StatusMapping ==
    (post.pc = "done" /\ post.upstream # 0 /\ post.upstream \notin 200..299) =>
        /\ OutcomeOf(post.response) = ExpectedOutcome(post.upstream)
        /\ ExpectedOutcome(post.upstream) = "provider-error"
                => post.response.error.status = post.upstream

\* The answers a failed provider call of this provider can produce.
ProviderErrorResponses(provider) ==
    IF provider \in SseProviders
    THEN { Response(500, "json", StatusMessage(provider, status)) : status \in Statuses \ (200..299) }
         \cup { Response(500, "json", Reason("fetch failed", 0)) }
    ELSE IF provider = "google"
    THEN { Response(200, "text", Reason("Google AI error", 0)) }
    ELSE { Response(500, "json", Reason("provider error", 0)) }

\* C21: for every provider, the answer to a provider call that timed out
\* differs in status or in the kind of its body from every answer to a failed
\* provider call, and the client's notification for it differs from theirs.
C21_TimeoutDistinguishable ==
    post.failure = "timeout" =>
        \A e \in ProviderErrorResponses(post.request.provider) :
            /\ << post.response.status, post.response.body >> # << e.status, e.body >>
            /\ clientErrorMessage(post.response) # clientErrorMessage(e)

\* C22: for every provider, an answer whose error text embeds the provider's
\* error body or an exception message never becomes the content of the
\* assistant message, and the notification of the client does not quote it.
C22_ProviderTextNeverShown ==
    post.details =>
        /\ clientContent(post.response) = NoReason
        /\ clientErrorMessage(post.response) # post.response.error

\* What reading an item gives: its value, or the default of the getter
\* when there is none.
ReadItem(item, default) == IF item # <<>> THEN item[1] ELSE default

\* C23: after any sequence of page mounts, storage.saveSettings,
\* storage.saveApiKeys, storage.getSettings, storage.getApiKeys and the
\* writes of the pages to localStorage 'apiKeys', a cache that is not null
\* equals what the item holds, so getSettings and getApiKeys return the value
\* most recently written to their key.
C23_CacheEqualsItem ==
    /\ storage.settingsCache # <<>> =>
           storage.settingsCache[1] = ReadItem(storage.settingsItem, DefaultSettings)
    /\ storage.apiKeysCache # <<>> =>
           storage.apiKeysCache[1] = ReadItem(storage.apiKeysItem, <<>>)
    /\ getSettingsResult(storage) = ReadItem(storage.settingsItem, DefaultSettings)
    /\ getApiKeysResult(storage) = ReadItem(storage.apiKeysItem, <<>>)

\* A key saved on the settings page after the cache had been filled, and a
\* model selected on Home after the settings had been cached.
C23_WrittenAfterCached ==
    /\ storage.page = "home"
    /\ storage.apiKeysCache # <<>>
    /\ KeyOf(storage.apiKeysCache[1], "mistral") = "k"
    /\ storage.settingsCache # <<>>
    /\ storage.settingsCache[1].defaultModelId = getModels("mistral")[1]

\* The ids of the messages of the conversations other than sel: those in the
\* list, and those a send or a regeneration in flight for another
\* conversation holds.
ForeignIds(sel) ==
    UNION { { chats[n].messages[k].id : k \in 1..Len(chats[n].messages) } :
            n \in { m \in 1..Len(chats) : chats[m].id # sel } }
    \cup UNION { {p.aiMessageId}
                 \cup { p.currentMessages[k].id : k \in 1..Len(p.currentMessages) }
                 \cup { p.messages[k].id : k \in 1..Len(p.messages) } :
                 p \in { q \in procs : q.chatId # sel } }

\* C24: in every reachable state the displayed list holds no message of a
\* conversation other than the selected one (and is empty when none is
\* selected).
C24_DisplayedBelongsToSelected ==
    \A k \in 1..Len(messages) : messages[k].id \notin ForeignIds(selectedChatId)

\* The roles a provider accepts.
AcceptedRoles(provider) ==
    IF provider = "mistral" THEN {"user", "assistant"}
    ELSE IF provider = "google" THEN {"user", "model"}
    ELSE {"user", "assistant", "system"}

\* The contents of a sequence of messages, in order.
ContentsOf(msgs) == [k \in 1..Len(msgs) |-> msgs[k].content]

\* C25: for every provider, the messages of the request made to the provider
\* have a role it accepts and a non-blank content, they are the messages of
\* the conversation with a role of user, assistant or system and a non-blank
\* content in their order, and no request is made when none remains.
C25_OnlyAcceptableMessagesForwarded ==
    /\ post.calls > 0 =>
        /\ \A k \in 1..Len(post.sent) :
               /\ post.sent[k].role \in AcceptedRoles(post.request.provider)
               /\ Trim(post.sent[k].content) # <<>>
        /\ ContentsOf(post.sent) = ContentsOf(validMessages(post.request.messages))
    /\ validMessages(post.request.messages) = <<>> => post.calls = 0

\* The lines of a text: its complete lines and what follows its last line feed.
LinesOf(text) ==
    FramesOf(text) \o
    << SubSeq(text, LineFeed(text, Cardinality(LineFeeds(text))) + 1, Len(text)) >>

\* The delta contents of the data lines of a sequence of lines, in order.
RECURSIVE LineDeltas(_)
LineDeltas(lines) ==
    IF lines = <<>> THEN <<>>
    ELSE (IF IsDeltaFrame(Head(lines)) THEN << JsonContent[Head(lines)[2]] >> ELSE <<>>)
         \o LineDeltas(Tail(lines))

\* C26: when the provider's stream has ended, the deltas an SSE adapter
\* emitted are those of the data lines of everything it received, each once
\* and in order, however the text was split into reads and whether or not its
\* last line ends with a line feed.
C26_DeltasIndependentOfSplit ==
    post.stream = "closed" => post.out = LineDeltas(LinesOf(post.received))

\* The ids of the conversations of a list.
ChatIds(c) == { c[n].id : n \in 1..Len(c) }

\* C27: no later step of a send (a chunk, the finalization, the delayed
\* update of the new conversation with the loading message) adds a
\* conversation to the in-memory or the persisted list: a conversation that
\* handleDeleteChat removed is not put back.
C27_SendNeverRestoresDeleted ==
    [][ ( \/ \E t \in timers : UpdateChatWithLoadingTimeout(t)
          \/ \E p \in procs, text \in Deltas : SendDelta(p, text)
          \/ \E p \in procs : SendDone(p) )
        => /\ ChatIds(chats') \subseteq ChatIds(chats)
           /\ ChatIds(storedChats') \subseteq ChatIds(storedChats) ]_vars

\* C28: every conversation of the in-memory and of the persisted list has a
\* non-empty title in every reachable state.
C28_TitlesNonEmpty ==
    /\ \A n \in 1..Len(chats) : chats[n].title # <<>>
    /\ \A n \in 1..Len(storedChats) : storedChats[n].title # <<>>

\* The selection names no conversation or one of the list.
SelectionValid == selectedChatId = NoChat \/ FindChat(chats, selectedChatId) # 0

\* The list without a conversation.
Remaining(c, chatId) == SelectSeq(c, LAMBDA chat : chat.id # chatId)

\* C29: whenever no handler and no timer is pending the selection is empty
\* or names a conversation of the list; deleting the selected conversation
\* selects the first remaining one, or none when the list becomes empty, and
\* deleting another conversation leaves the selection as it was.
C29_SelectionFollowsList ==
    /\ [](procs = {} /\ timers = {} => SelectionValid)
    /\ [][ \A chatId \in 1..nextId :
              handleDeleteChat(chatId) =>
                  selectedChatId' =
                      IF selectedChatId # chatId THEN selectedChatId
                      ELSE IF Remaining(chats, chatId) # <<>> THEN Remaining(chats, chatId)[1].id
                      ELSE NoChat ]_vars

\* The first conversation of a saved list of two was deleted and the
\* remaining one is selected and displayed.
C29_SelectedDeleted ==
    /\ navigations = 1
    /\ chats = << SavedChat(2) >>
    /\ storedChats = << SavedChat(2) >>
    /\ selectedChatId = 2
    /\ messages = SavedChat(2).messages
    /\ procs = {} /\ timers = {}

\* The displayed messages other than the one with this id.
OtherMessages(msgs, id) == SelectSeq(msgs, LAMBDA m : m.id # id)

\* A regeneration fails: its request, or its stream.
RewriteFails(p) == RewriteResponse(p, FALSE) \/ RewriteReadError(p)

\* C30: when the request or the stream of a regeneration fails, the displayed
\* message is the one handleRewrite was given, with its content, versions
\* and currentVersionIndex and isLoading = false, every other displayed
\* message is as it was, and the in-memory and persisted lists are unchanged.
C30_FailedRegenerationRestores ==
    [][ \A p \in procs : RewriteFails(p) =>
            /\ \E k \in 1..Len(messages') :
                   messages'[k] = [p.message EXCEPT !.isLoading = FALSE]
            /\ OtherMessages(messages', p.message.id) = OtherMessages(messages, p.message.id)
            /\ chats' = chats
            /\ storedChats' = storedChats ]_vars
====
